---- MODULE Spec2Model ----
(***************************************************************************)
(* Model of exotel_websocket_server.py: one WebSocket connection served by *)
(* exotel_handler, the TTS call of TTSService.generate_speech and the      *)
(* transcoding of AudioConverter.to_pcm_base64.                            *)
(*                                                                         *)
(* Python values are tagged records: [t |-> "int", v |-> 5].  A str is     *)
(* held as an atom (t = "str") where the code only compares or echoes it  *)
(* (event names, stream_sid, response text) and as a sequence of           *)
(* characters (t = "text") where the code reads its characters (the        *)
(* timestamp given to int(), the payload given to b64decode).  Absent is   *)
(* the lookup result for a key the dict does not have.                     *)
(***************************************************************************)
EXTENDS Integers, Sequences, FiniteSets, TLC

\* ------------------------------------------------------------------ bounds
MaxFrames == 2      \* inbound messages the peer sends on the connection

\* ------------------------------------------------------- program constants
FrameAdvance == 20  \* str(int(media["timestamp"]) + 20)

\* ------------------------------------------------------------ Python values
Absent == [t |-> "absent"]
None == [t |-> "none"]
JInt(n) == [t |-> "int", v |-> n]
JAtom(s) == [t |-> "str", v |-> s]
JText(cs) == [t |-> "text", v |-> cs]
Bytes(bs) == [t |-> "bytes", v |-> bs]

Ok(v) == [ok |-> TRUE, v |-> v]
Raise(e) == [ok |-> FALSE, exc |-> e]

Range(s) == {s[i] : i \in DOMAIN s}

\* Python truth value of the values the handler tests with `not`.
Truthy(x) ==
  CASE x.t = "none" -> FALSE
    [] x.t = "bytes" -> Len(x.v) > 0
    [] x.t = "text" -> Len(x.v) > 0
    [] x.t = "int" -> x.v # 0
    [] OTHER -> TRUE

\* ------------------------------------------------------------- int(), str()
Digits == <<"0", "1", "2", "3", "4", "5", "6", "7", "8", "9">>

IsDigit(c) == \E i \in DOMAIN Digits : Digits[i] = c

DigitVal(c) == (CHOOSE i \in DOMAIN Digits : Digits[i] = c) - 1

RECURSIVE StripLeft(_)
StripLeft(cs) == IF cs # <<>> /\ Head(cs) = " " THEN StripLeft(Tail(cs)) ELSE cs

RECURSIVE StripRight(_)
StripRight(cs) ==
  IF cs # <<>> /\ cs[Len(cs)] = " " THEN StripRight(SubSeq(cs, 1, Len(cs) - 1)) ELSE cs

RECURSIVE DigitsValue(_, _)
DigitsValue(cs, acc) ==
  IF cs = <<>> THEN acc ELSE DigitsValue(Tail(cs), acc * 10 + DigitVal(Head(cs)))

\* int(s) for a str: surrounding whitespace, an optional sign, decimal digits.
ParseInt(cs) ==
  LET s == StripRight(StripLeft(cs))
      signed == s # <<>> /\ Head(s) \in {"-", "+"}
      body == IF signed THEN Tail(s) ELSE s
  IN IF body = <<>> \/ \E i \in DOMAIN body : ~IsDigit(body[i])
       THEN Raise("ValueError")
       ELSE Ok(IF signed /\ Head(s) = "-" THEN 0 - DigitsValue(body, 0)
                                           ELSE DigitsValue(body, 0))

\* int(x) for the JSON values a timestamp can be.
PyInt(x) ==
  CASE x.t = "text" -> ParseInt(x.v)
    [] x.t = "int" -> Ok(x.v)
    [] OTHER -> Raise("TypeError")

RECURSIVE NatToStr(_)
NatToStr(n) ==
  IF n < 10 THEN <<Digits[n + 1]>> ELSE Append(NatToStr(n \div 10), Digits[(n % 10) + 1])

\* str(n) for an int.
IntToStr(n) == IF n < 0 THEN <<"-">> \o NatToStr(0 - n) ELSE NatToStr(n)

\* x + 1 for a JSON value x.
PlusOne(x) == IF x.t = "int" THEN Ok(JInt(x.v + 1)) ELSE Raise("TypeError")

\* ------------------------------------------------------------------- base64
B64Alphabet ==
  <<"A", "B", "C", "D", "E", "F", "G", "H", "I", "J", "K", "L", "M",
    "N", "O", "P", "Q", "R", "S", "T", "U", "V", "W", "X", "Y", "Z",
    "a", "b", "c", "d", "e", "f", "g", "h", "i", "j", "k", "l", "m",
    "n", "o", "p", "q", "r", "s", "t", "u", "v", "w", "x", "y", "z",
    "0", "1", "2", "3", "4", "5", "6", "7", "8", "9", "+", "/">>

IsB64Char(c) == \E i \in DOMAIN B64Alphabet : B64Alphabet[i] = c

B64Index(c) == (CHOOSE i \in DOMAIN B64Alphabet : B64Alphabet[i] = c) - 1

B64Char(n) == B64Alphabet[n + 1]

\* base64.b64encode(bs): three bytes to four characters, "=" padding.
RECURSIVE B64Encode(_)
B64Encode(bs) ==
  IF bs = <<>> THEN <<>>
  ELSE IF Len(bs) = 1 THEN
    <<B64Char(bs[1] \div 4), B64Char((bs[1] % 4) * 16), "=", "=">>
  ELSE IF Len(bs) = 2 THEN
    <<B64Char(bs[1] \div 4), B64Char((bs[1] % 4) * 16 + bs[2] \div 16),
      B64Char((bs[2] % 16) * 4), "=">>
  ELSE
    <<B64Char(bs[1] \div 4), B64Char((bs[1] % 4) * 16 + bs[2] \div 16),
      B64Char((bs[2] % 16) * 4 + bs[3] \div 64), B64Char(bs[3] % 64)>>
      \o B64Encode(SubSeq(bs, 4, Len(bs)))

\* binascii.a2b_base64 in its default, non-strict mode: characters outside
\* the alphabet are skipped, a complete pad sequence ends the input, and a
\* quad left incomplete at the end is an error (binascii.Error).
RECURSIVE A2B(_, _, _, _, _)
A2B(cs, quad, pads, left, out) ==
  IF cs = <<>> THEN
    IF quad # 0 THEN Raise("binascii.Error") ELSE Ok(out)
  ELSE IF Head(cs) = "=" THEN
    IF quad >= 2 /\ quad + pads + 1 >= 4
      THEN Ok(out)
      ELSE A2B(Tail(cs), quad, pads + 1, left, out)
  ELSE IF ~IsB64Char(Head(cs)) THEN
    A2B(Tail(cs), quad, pads, left, out)
  ELSE
    LET d == B64Index(Head(cs)) IN
    CASE quad = 0 -> A2B(Tail(cs), 1, 0, d, out)
      [] quad = 1 -> A2B(Tail(cs), 2, 0, d % 16, Append(out, left * 4 + d \div 16))
      [] quad = 2 -> A2B(Tail(cs), 3, 0, d % 4, Append(out, left * 16 + d \div 4))
      [] OTHER -> A2B(Tail(cs), 0, 0, 0, Append(out, left * 64 + d))

\* base64.b64decode(x): a str is decoded, any other JSON value is a TypeError.
B64Decode(x) == IF x.t = "text" THEN A2B(x.v, 0, 0, 0, <<>>) ELSE Raise("TypeError")

\* --------------------------------------------------------------------- JSON
\* A message on the wire is text; valid says whether it is well-formed JSON
\* and value is the value it denotes.
JsonLoads(message) ==
  IF message.valid THEN Ok(message.value) ELSE Raise("JSONDecodeError")

JsonDumps(value) == [valid |-> TRUE, value |-> value]

IsDict(x) == x.t = "dict"

HasKey(d, k) == d[k].t # "absent"

\* d[k]
Subscript(d, k) == IF HasKey(d, k) THEN Ok(d[k]) ELSE Raise("KeyError")

\* d.get(k, default)
DictGet(d, k, default) == IF HasKey(d, k) THEN d[k] ELSE default

Data(event, start, media, sid, seq, params) ==
  [t |-> "dict", event |-> event, start |-> start, media |-> media,
   stream_sid |-> sid, sequence_number |-> seq, parameters |-> params]

Media(payload, chunk, timestamp) ==
  [t |-> "dict", payload |-> payload, chunk |-> chunk, timestamp |-> timestamp]

Params(text) == [t |-> "dict", response_text |-> text]

CallInfo(from, to) == [t |-> "dict", from |-> from, to |-> to]

EmptyMedia == Media(Absent, Absent, Absent)
EmptyParams == Params(Absent)
EmptyCallInfo == CallInfo(Absent, Absent)

\* ------------------------------------------------------------------ logging
LogInfo(text) == <<"INFO", text>>
LogWarning(text) == <<"WARNING", text>>
LogError(text) == <<"ERROR", text>>

\* --------------------------------------------------------------- TTSService
\* TTSService.__init__: both environment variables must be set and non-empty.
TTSInit(env) ==
  IF ~env.api_key \/ ~env.voice_id THEN Raise("ValueError") ELSE Ok(env)

\* What the remote call of generate_speech can come back with.
RemoteResponses ==
  { [kind |-> "network_error", status |-> 0, content |-> <<>>],
    [kind |-> "http", status |-> 200, content |-> <<>>],
    [kind |-> "http", status |-> 200, content |-> <<73, 68, 51>>] }

\* TTSService.generate_speech: the response body, or None (after logging)
\* when requests.post or raise_for_status raises a RequestException.
GenerateSpeech(remote) ==
  IF remote.kind = "network_error" \/ remote.status >= 400
    THEN [v |-> None, logs |-> <<LogError("ElevenLabs API error")>>]
    ELSE [v |-> Bytes(remote.content), logs |-> <<>>]

\* ----------------------------------------------------------- AudioConverter
\* What the decode engine (AudioSegment.from_file, then set_frame_rate(8000),
\* set_channels(1), set_sample_width(2)) can produce for a blob: an error, or
\* the 16-bit samples of the resampled audio.
DecodeResults ==
  { Raise("CouldntDecodeError"), Ok(<<>>), Ok(<<300, -2>>) }

\* raw_data: each sample as two bytes, little-endian two's complement.
RECURSIVE RawData(_)
RawData(samples) ==
  IF samples = <<>> THEN <<>>
  ELSE LET u == Head(samples) % 65536
       IN <<u % 256, u \div 256>> \o RawData(Tail(samples))

\* AudioConverter.to_pcm_base64: every exception of the body is caught,
\* logged and reported as None.
ToPcmBase64(audio_bytes, ffmpegFound, decoded) ==
  LET body == IF ~ffmpegFound THEN Raise("FileNotFoundError")
              ELSE IF ~decoded.ok THEN decoded
              ELSE Ok(JText(B64Encode(RawData(decoded.v))))
  IN IF body.ok THEN [v |-> body.v, logs |-> <<>>]
     ELSE [v |-> None, logs |-> <<LogError("Audio conversion failed")>>]

\* ----------------------------------------------------------- exotel_handler
DefaultText == JAtom("Hello, this is an automated response")

\* Outcome of a stretch of the loop body: it finished (the loop goes on to the
\* next message), it raised, it reached the synthesis call, or it reached
\* websocket.send.
Finished(logs) == [kind |-> "finished", logs |-> logs]
Raised(exc, logs) == [kind |-> "raise", exc |-> exc, logs |-> logs]
CallSynth(text, data, media, logs) ==
  [kind |-> "synth", text |-> text, data |-> data, media |-> media, logs |-> logs]
SendResponse(response, logs) == [kind |-> "send", response |-> response, logs |-> logs]

EventReceived(event) == <<"INFO", "Event received", event>>

\* Mutant: the chain ends in "else" where it has elif event == "media".
Dispatch_ElseMedia(event) ==
  IF event.t = "str" /\ event.v \in {"connected", "start", "stop"}
    THEN event.v
    ELSE "media"

\* Mutant: the chain has no branch for "stop".
Dispatch_NoStop(event) ==
  IF event.t = "str" /\ event.v \in {"connected", "start", "media"}
    THEN event.v
    ELSE "unknown"

\* The if/elif chain on event.
Dispatch(event) ==
  IF event.t = "str" /\ event.v \in {"connected", "start", "media", "stop"}
    THEN event.v
    ELSE "unknown"

\* elif event == "start"
StartBranch(data, logs) ==
  LET call_info == DictGet(data, "start", EmptyCallInfo)
  IN IF IsDict(call_info)
       THEN Finished(Append(logs, LogInfo("Call started")))
       ELSE Raised("AttributeError", logs)

\* Mutant: missing media fields are filled with defaults instead of rejected.
ValidateMedia_Defaults(media) ==
  IF ~IsDict(media) THEN Raise("TypeError")
  ELSE Ok(Media(DictGet(media, "payload", JText(<<>>)),
                DictGet(media, "chunk", JInt(0)),
                DictGet(media, "timestamp", JText(<<"0">>))))

\* if not all(k in media for k in ["payload", "chunk", "timestamp"]): raise
ValidateMedia(media) ==
  IF ~IsDict(media) THEN Raise("TypeError")
  ELSE IF \A k \in {"payload", "chunk", "timestamp"} : HasKey(media, k)
    THEN Ok(media)
    ELSE Raise("ValueError")

\* Mutant: the default text is used whatever the parameters carry.
ResponseText_IgnoresParams(data) ==
  IF IsDict(DictGet(data, "parameters", EmptyParams))
    THEN Ok(DefaultText)
    ELSE Raise("AttributeError")

\* data.get("parameters", {}).get("response_text", default)
ResponseText(data) ==
  LET parameters == DictGet(data, "parameters", EmptyParams)
  IN IF IsDict(parameters)
       THEN Ok(DictGet(parameters, "response_text", DefaultText))
       ELSE Raise("AttributeError")

\* elif event == "media", up to the call of generate_speech
MediaBranch(data, logs) ==
  LET checked == ValidateMedia(DictGet(data, "media", EmptyMedia))
  IN IF ~checked.ok THEN Raised(checked.exc, logs)
     ELSE LET media == checked.v
              raw_audio == B64Decode(media.payload)
              text == ResponseText(data)
          IN IF ~raw_audio.ok THEN Raised(raw_audio.exc, logs)
             ELSE IF ~text.ok THEN Raised(text.exc, logs)
             ELSE CallSynth(text.v, data, media, logs)

\* The loop body from json.loads to the end of the branch or to the call of
\* generate_speech.
PreSynth(message) ==
  LET loaded == JsonLoads(message)
  IN IF ~loaded.ok THEN Raised(loaded.exc, <<>>)
     ELSE IF ~IsDict(loaded.v) THEN Raised("ValueError", <<>>)
     ELSE LET data == loaded.v
              event == DictGet(data, "event", None)
              logs == <<EventReceived(event)>>
              branch == Dispatch(event)
          IN CASE branch = "connected" -> Finished(Append(logs, LogInfo("Call connected")))
               [] branch = "start" -> StartBranch(data, logs)
               [] branch = "media" -> MediaBranch(data, logs)
               [] branch = "stop" -> Finished(Append(logs, LogInfo("Call ended")))
               [] OTHER -> Finished(Append(logs, LogWarning("Unknown event type")))

\* Mutant: if audio_bytes is None
SynthFailed_IsNone(audio_bytes) == audio_bytes.t = "none"

\* if not audio_bytes
SynthFailed(audio_bytes) == ~Truthy(audio_bytes)

\* Mutant: if audio_b64_response is None
ConvertFailed_IsNone(audio_b64_response) == audio_b64_response.t = "none"

\* if not audio_b64_response
ConvertFailed(audio_b64_response) == ~Truthy(audio_b64_response)

\* Mutant: the str() around the sum is lost.
NextTimestamp_NoStr(timestamp) ==
  LET n == PyInt(timestamp)
  IN IF n.ok THEN Ok(JInt(n.v + FrameAdvance)) ELSE n

\* str(int(media["timestamp"]) + 20)
NextTimestamp(timestamp) ==
  LET n == PyInt(timestamp)
  IN IF n.ok THEN Ok(JText(IntToStr(n.v + FrameAdvance))) ELSE n

\* Mutant: the response carries a fixed stream_sid.
StreamSid_Fixed(data) ==
  IF HasKey(data, "stream_sid") THEN Ok(JAtom("sid")) ELSE Raise("KeyError")

\* data["stream_sid"]
StreamSid(data) == Subscript(data, "stream_sid")

\* The response dict; its entries are evaluated in source order and the first
\* failing one decides the exception.
BuildResponse(data, media, payload) ==
  LET sid == StreamSid(data)
      seq0 == Subscript(data, "sequence_number")
      seq == IF seq0.ok THEN PlusOne(seq0.v) ELSE seq0
      chunk == PlusOne(media.chunk)
      ts == NextTimestamp(media.timestamp)
  IN IF ~sid.ok THEN sid
     ELSE IF ~seq.ok THEN seq
     ELSE IF ~chunk.ok THEN chunk
     ELSE IF ~ts.ok THEN ts
     ELSE Ok([t |-> "dict", event |-> JAtom("media"), stream_sid |-> sid.v,
              sequence_number |-> seq.v,
              media |-> [t |-> "dict", chunk |-> chunk.v, timestamp |-> ts.v,
                         payload |-> payload]])

\* The loop body from the return of generate_speech to websocket.send.
PostSynth(data, media, audio_bytes, ffmpegFound, decoded) ==
  IF SynthFailed(audio_bytes)
    THEN Finished(<<LogError("Failed to generate TTS audio")>>)
    ELSE LET converted == ToPcmBase64(audio_bytes, ffmpegFound, decoded)
         IN IF ConvertFailed(converted.v)
              THEN Finished(Append(converted.logs, LogError("Failed to convert audio to PCM")))
              ELSE LET response == BuildResponse(data, media, converted.v)
                   IN IF response.ok
                        THEN SendResponse(JsonDumps(response.v), converted.logs)
                        ELSE Raised(response.exc, converted.logs)

\* Exception classes that are ValueError or derive from it.
IsValueError(exc) ==
  exc \in {"ValueError", "JSONDecodeError", "binascii.Error"}

\* Mutant: the inner try lacks its last clause, except Exception.
InnerCatches_NoGeneric(exc) == IsValueError(exc)

\* Mutant: the inner try has only a clause for KeyError and TypeError.
InnerCatches_NoValueError(exc) == exc \in {"KeyError", "TypeError"}

\* The except clauses of the inner try: JSONDecodeError, ValueError, Exception.
InnerCatches(exc) == TRUE

\* What the matching except clause of the inner try logs.
InnerExceptLog(exc) ==
  IF exc = "JSONDecodeError" THEN LogError("Invalid JSON received")
  ELSE IF IsValueError(exc) THEN LogError("Invalid message")
  ELSE LogError("Error processing message")

\* The except clauses of the outer try: ConnectionClosedError, Exception.
OuterCatches(exc) == TRUE

\* Mutant: the outer try has no clause for ConnectionClosedError.
OuterExceptLog_Unexpected(exc) == LogError("Unexpected error")

\* What the matching except clause of the outer try logs.
OuterExceptLog(exc) ==
  IF exc = "ConnectionClosedError" THEN LogError("WebSocket connection closed")
  ELSE LogError("Unexpected error")

\* finally
FinallyLog == LogInfo("WebSocket connection terminated")

\* Mutant: the iterator yields the newest queued message first.
NextIndex_Newest(queue) == Len(queue)

\* async for message in websocket: the position in the receive queue of the
\* message the iterator yields next (the oldest one).
NextIndex(queue) == 1

RemoveAt(queue, i) == SubSeq(queue, 1, i - 1) \o SubSeq(queue, i + 1, Len(queue))

\* Mutant: the response is written twice.
WebsocketSend_Twice(out, message) == Append(Append(out, message), message)

\* await websocket.send(message), when it returns normally.
WebsocketSend(out, message) == Append(out, message)

\* ------------------------------------------------------------ peer messages
Chars1000 == <<"1", "0", "0", "0">>

\* The media frame of test_normal_flow.
TestMedia == Media(JText(<<>>), JInt(1), JText(Chars1000))

MediaFrame(media, sid, seq, params) ==
  JsonDumps(Data(JAtom("media"), Absent, media, sid, seq, params))

ControlFrame(event, start) ==
  JsonDumps(Data(event, start, Absent, Absent, Absent, Absent))

GoodMediaFrames ==
  { MediaFrame(TestMedia, JAtom("sid"), JInt(1), Params(JAtom("test"))),
    MediaFrame(Media(JText(<<"Q", "U", "I", "=">>), JInt(3), JText(<<" ", "0", "9", "8", "0">>)),
               JAtom("sid2"), JInt(7), Absent) }

BadMediaFrames ==
  { \* rejected before the synthesis call
    MediaFrame(Absent, JAtom("sid"), JInt(1), Absent),
    MediaFrame(Media(Absent, JInt(1), JText(Chars1000)), JAtom("sid"), JInt(1), Absent),
    MediaFrame(Media(JText(<<>>), Absent, JText(Chars1000)), JAtom("sid"), JInt(1), Absent),
    MediaFrame(Media(JText(<<>>), JInt(1), Absent), JAtom("sid"), JInt(1), Absent),
    MediaFrame(Media(JText(<<"Q">>), JInt(1), JText(Chars1000)), JAtom("sid"), JInt(1), Absent),
    MediaFrame(TestMedia, JAtom("sid"), JInt(1), JAtom("test")),
    \* rejected while the response is built
    MediaFrame(TestMedia, Absent, JInt(1), EmptyParams),
    MediaFrame(TestMedia, JAtom("sid"), Absent, Absent),
    MediaFrame(Media(JText(<<>>), JInt(1), JText(<<"1", "2", "a">>)), JAtom("sid"), JInt(1), Absent) }

ControlFrames ==
  { ControlFrame(JAtom("connected"), Absent),
    ControlFrame(JAtom("start"), CallInfo(JAtom("1234"), JAtom("5678"))),
    ControlFrame(JAtom("stop"), Absent),
    \* an event the handler does not know, carrying the fields of a media frame
    JsonDumps(Data(JAtom("mark"), Absent, TestMedia, JAtom("sid"), JInt(1), Absent)),
    ControlFrame(Absent, Absent) }

MalformedFrames ==
  { [valid |-> FALSE, value |-> None],      \* "invalid json"
    JsonDumps(JInt(7)) }                     \* 7

Messages == GoodMediaFrames \cup BadMediaFrames \cup ControlFrames \cup MalformedFrames

Environments == [api_key : BOOLEAN, voice_id : BOOLEAN]

\* -------------------------------------------------------------------- state
VARIABLES
  env,             \* which of ELEVENLABS_API_KEY / ELEVENLABS_VOICE_ID are set
  server,          \* "starting" until main() has called websockets.serve, then "serving"
  conn,            \* "none", "open", "closed_ok" (close 1000/1001) or "closed_error"
  inq,             \* messages received and not yet yielded: [n, m], n the arrival number
  arrived,         \* number of messages the peer has sent
  pc,              \* position of exotel_handler
  cur,             \* the queue item whose synthesis call is in flight
  log,             \* records this connection's handler emitted through logger, oldest first
  sent,            \* messages websocket.send has returned for, oldest first
  ttsCalls,        \* texts given to generate_speech, oldest first
  transcodeCalls,  \* number of calls of to_pcm_base64
  history,         \* one entry per message whose loop iteration has ended
  oconn,           \* a second connection of the same server: its state,
  oinq,            \*   the messages received on it and not yet yielded,
  oarrived,        \*   the number of messages its peer has sent,
  opc,             \*   the position of its exotel_handler,
  ocur,            \*   the message whose synthesis call is in flight,
  osent            \*   the messages sent on it

session == <<conn, inq, arrived, pc, cur, log, sent, ttsCalls, transcodeCalls, history>>

other == <<oconn, oinq, oarrived, opc, ocur, osent>>

vars == <<env, server, session, other>>

NoFrame == [n |-> 0]

Init ==
  /\ env \in Environments
  /\ server = "starting"
  /\ conn = "none"
  /\ inq = <<>>
  /\ arrived = 0
  /\ pc = "idle"
  /\ cur = NoFrame
  /\ log = <<>>
  /\ sent = <<>>
  /\ ttsCalls = <<>>
  /\ transcodeCalls = 0
  /\ history = <<>>
  /\ oconn = "none"
  /\ oinq = <<>>
  /\ oarrived = 0
  /\ opc = "idle"
  /\ ocur = NoFrame
  /\ osent = <<>>

\* main(): the port is read and websockets.serve is awaited; nothing else is
\* looked at before the server listens.
MainStart ==
  /\ server = "starting"
  /\ server' = "serving"
  /\ UNCHANGED <<env, session, other>>

\* A handler at position p keeps the event loop to itself: requests.post is
\* an ordinary call, the coroutine does not yield until it has returned.
Blocking(p) == p = "in_synth"

\* The server completes the opening handshake of a connection and starts
\* exotel_handler on it.
Accept ==
  /\ server = "serving"
  /\ pc = "idle"
  /\ ~Blocking(opc)
  /\ pc' = "accepted"
  /\ conn' = "open"
  /\ UNCHANGED <<env, server, inq, arrived, cur, log, sent, ttsCalls, transcodeCalls, history, other>>

\* The peer sends one more message, one of msgs, at most bound of them.
ArriveFrom(msgs, bound) ==
  /\ conn = "open"
  /\ pc \notin {"done", "raised"}
  /\ arrived < bound
  /\ \E m \in msgs :
       inq' = Append(inq, [n |-> arrived + 1, m |-> m])
  /\ arrived' = arrived + 1
  /\ UNCHANGED <<env, server, conn, pc, cur, log, sent, ttsCalls, transcodeCalls, history, other>>

Arrive == ArriveFrom(Messages, MaxFrames)

\* The peer closes the connection, with or without a normal close code.
PeerClose ==
  /\ conn = "open"
  /\ pc \notin {"done", "raised"}
  /\ conn' \in {"closed_ok", "closed_error"}
  /\ UNCHANGED <<env, server, inq, arrived, pc, cur, log, sent, ttsCalls, transcodeCalls, history, other>>

\* exotel_handler up to the loop: the log line and TTSService(), which is
\* outside both try blocks.
HandlerStart ==
  /\ pc = "accepted"
  /\ ~Blocking(opc)
  /\ log' = Append(log, LogInfo("WebSocket connection established"))
  /\ pc' = IF TTSInit(env).ok THEN "await_msg" ELSE "raised"
  /\ UNCHANGED <<env, server, conn, inq, arrived, cur, sent, ttsCalls, transcodeCalls, history, other>>

\* Mutant: websocket.send is outside both try blocks.
AfterRaise_SendUnguarded(exc) ==
  IF exc = "ConnectionClosed" THEN [pc |-> "raised", logs |-> <<>>]
  ELSE IF InnerCatches(exc) THEN [pc |-> "await_msg", logs |-> <<InnerExceptLog(exc)>>]
  ELSE IF OuterCatches(exc) THEN [pc |-> "done", logs |-> <<OuterExceptLog(exc), FinallyLog>>]
  ELSE [pc |-> "raised", logs |-> <<FinallyLog>>]

\* How an iteration that raised exc ends: in the inner except clause (the
\* loop goes on), in the outer one (the handler returns) or out of the handler.
AfterRaise(exc) ==
  IF InnerCatches(exc) THEN [pc |-> "await_msg", logs |-> <<InnerExceptLog(exc)>>]
  ELSE IF OuterCatches(exc) THEN [pc |-> "done", logs |-> <<OuterExceptLog(exc), FinallyLog>>]
  ELSE [pc |-> "raised", logs |-> <<FinallyLog>>]

\* What generate_speech / to_pcm_base64 returned in an iteration that did
\* not call it.
NotCalled == [t |-> "not_called"]

\* History of an iteration: arrival number and text of its message, what
\* generate_speech and to_pcm_base64 returned, and the position in sent of
\* the message it sent (0: none).
Entry(n, m, audio, pcm, out) ==
  [n |-> n, m |-> m, audio |-> audio, pcm |-> pcm, out |-> out]

\* Mutant: the next message is read while generate_speech has not returned.
ReadyToRead_Overlap(p) == p \in {"await_msg", "in_synth"}

\* async for: the iterator is asked for the next message only when the body
\* of the loop has run to its end for the previous one.
ReadyToRead(p) == p = "await_msg"

\* Mutant: generate_speech answers a text it has seen from a cache.
RecordCall_Cached(calls, text) ==
  IF \E k \in 1..Len(calls) : calls[k] = text THEN calls ELSE Append(calls, text)

\* tts_service.generate_speech(response_text): one call, one POST, whatever
\* was asked before.
RecordCall(calls, text) == Append(calls, text)

\* The iteration for queue item i, whose steps up to the synthesis call came
\* to r.
Iterate(i, r) ==
  \E after \in {IF r.kind = "raise" THEN AfterRaise(r.exc)
                ELSE [pc |-> "await_msg", logs |-> <<>>]} :
    /\ inq' = RemoveAt(inq, i)
    /\ log' = log \o r.logs \o after.logs
    /\ IF r.kind = "synth"
         THEN /\ pc' = "in_synth"
              /\ cur' = inq[i]
              /\ ttsCalls' = RecordCall(ttsCalls, r.text)
              /\ UNCHANGED history
         ELSE /\ pc' = after.pc
              /\ history' = Append(history, Entry(inq[i].n, inq[i].m, NotCalled, NotCalled, 0))
              /\ UNCHANGED <<cur, ttsCalls>>
    /\ UNCHANGED <<env, server, conn, arrived, sent, transcodeCalls, other>>

\* Mutant: media frames are dropped until a start event has been handled.
HandleMessage_Gated ==
  /\ ReadyToRead(pc)
  /\ ~Blocking(opc)
  /\ inq # <<>>
  /\ \E i \in {NextIndex(inq)} :
     \E r \in {PreSynth(inq[i].m)} :
       IF r.kind = "synth" /\ \A k \in 1..Len(log) : log[k] # LogInfo("Call started")
         THEN Iterate(i, Finished(<<>>))
         ELSE Iterate(i, r)

\* One iteration of the loop, from the message the iterator yields to the end
\* of its branch or to the call of generate_speech.
HandleMessage ==
  /\ ReadyToRead(pc)
  /\ ~Blocking(opc)
  /\ inq # <<>>
  /\ \E i \in {NextIndex(inq)} :
     \E r \in {PreSynth(inq[i].m)} :
       Iterate(i, r)

\* The end of an iteration whose synthesis call returned speech and whose
\* remaining steps came to r; pcm is what to_pcm_base64 returned, if called.
FinishIteration(speech, pcm, r, sendRaises) ==
  \E after \in {IF r.kind = "raise" THEN AfterRaise(r.exc)
                ELSE IF r.kind = "send" /\ sendRaises THEN AfterRaise("ConnectionClosed")
                ELSE [pc |-> "await_msg", logs |-> <<>>]} :
    /\ log' = log \o speech.logs \o r.logs \o after.logs
    /\ transcodeCalls' = IF pcm = NotCalled THEN transcodeCalls ELSE transcodeCalls + 1
    /\ IF r.kind = "send" /\ ~sendRaises
         THEN /\ sent' = WebsocketSend(sent, r.response)
              /\ history' = Append(history, Entry(cur.n, cur.m, speech.v, pcm, Len(sent) + 1))
         ELSE /\ sent' = sent
              /\ history' = Append(history, Entry(cur.n, cur.m, speech.v, pcm, 0))
    /\ pc' = after.pc

\* generate_speech returns; the rest of the iteration: to_pcm_base64, the
\* response dict, json.dumps and websocket.send.  On a connection the peer
\* has closed, send raises ConnectionClosed or returns after writing to the
\* dead transport, depending on what the library has noticed by then.
SynthReturn ==
  /\ pc = "in_synth"
  /\ \E call \in {PreSynth(cur.m)} :
     \E remote \in RemoteResponses, ffmpegFound \in BOOLEAN, decoded \in DecodeResults,
        sendRaises \in BOOLEAN :
       /\ sendRaises => conn # "open"
       /\ \E speech \in {GenerateSpeech(remote)} :
          \E pcm \in {IF SynthFailed(speech.v) THEN NotCalled
                      ELSE ToPcmBase64(speech.v, ffmpegFound, decoded).v} :
          \E r \in {PostSynth(call.data, call.media, speech.v, ffmpegFound, decoded)} :
            FinishIteration(speech, pcm, r, sendRaises)
  /\ cur' = NoFrame
  /\ UNCHANGED <<env, server, conn, inq, arrived, ttsCalls, other>>

\* The iterator ends: silently after a normal close, with
\* ConnectionClosedError after an abnormal one; then the finally clause.
LoopEnd ==
  /\ pc = "await_msg"
  /\ ~Blocking(opc)
  /\ inq = <<>>
  /\ conn # "open"
  /\ log' = IF conn = "closed_ok" THEN Append(log, FinallyLog)
            ELSE log \o <<OuterExceptLog("ConnectionClosedError"), FinallyLog>>
  /\ pc' = "done"
  /\ UNCHANGED <<env, server, conn, inq, arrived, cur, sent, ttsCalls, transcodeCalls, history, other>>

Next ==
  \/ MainStart
  \/ Accept
  \/ Arrive
  \/ PeerClose
  \/ HandlerStart
  \/ HandleMessage
  \/ SynthReturn
  \/ LoopEnd

Spec == Init /\ [][Next]_vars

\* -------------------------------------------------- a second connection
\* The same server with a second connection, whose handler is the same
\* coroutine function run on the same event loop.
MaxServerFrames == 1

ServerMessages ==
  { MediaFrame(TestMedia, JAtom("sid"), JInt(1), Params(JAtom("test"))),
    MediaFrame(Media(JText(<<"Q", "U", "I", "=">>), JInt(3), JText(<<" ", "0", "9", "8", "0">>)),
               JAtom("sid2"), JInt(7), Absent),
    [valid |-> FALSE, value |-> None] }

ArriveServer == ArriveFrom(ServerMessages, MaxServerFrames)

OtherAccept ==
  /\ server = "serving"
  /\ opc = "idle"
  /\ ~Blocking(pc)
  /\ opc' = "accepted"
  /\ oconn' = "open"
  /\ UNCHANGED <<env, server, session, oinq, oarrived, ocur, osent>>

OtherArrive ==
  /\ oconn = "open"
  /\ opc \notin {"done", "raised"}
  /\ oarrived < MaxServerFrames
  /\ \E m \in ServerMessages : oinq' = Append(oinq, m)
  /\ oarrived' = oarrived + 1
  /\ UNCHANGED <<env, server, session, oconn, opc, ocur, osent>>

OtherPeerClose ==
  /\ oconn = "open"
  /\ opc \notin {"done", "raised"}
  /\ oconn' \in {"closed_ok", "closed_error"}
  /\ UNCHANGED <<env, server, session, oinq, oarrived, opc, ocur, osent>>

OtherStart ==
  /\ opc = "accepted"
  /\ ~Blocking(pc)
  /\ opc' = IF TTSInit(env).ok THEN "await_msg" ELSE "raised"
  /\ UNCHANGED <<env, server, session, oconn, oinq, oarrived, ocur, osent>>

OtherHandle ==
  /\ ReadyToRead(opc)
  /\ ~Blocking(pc)
  /\ oinq # <<>>
  /\ \E i \in {NextIndex(oinq)} :
     \E r \in {PreSynth(oinq[i])} :
       /\ oinq' = RemoveAt(oinq, i)
       /\ IF r.kind = "synth"
            THEN opc' = "in_synth" /\ ocur' = oinq[i]
            ELSE /\ opc' = IF r.kind = "raise" THEN AfterRaise(r.exc).pc ELSE "await_msg"
                 /\ UNCHANGED ocur
  /\ UNCHANGED <<env, server, session, oconn, oarrived, osent>>

\* Mutant: the websocket is a module-level name, bound to the first connection.
SendTarget_Shared(connection) == 1

\* The connection a handler writes to: the websocket it was called with.
\* 1 is the first connection, 2 the second.
SendTarget(connection) == connection

OtherSynthReturn ==
  /\ opc = "in_synth"
  /\ \E call \in {PreSynth(ocur)} :
     \E remote \in RemoteResponses, ffmpegFound \in BOOLEAN, decoded \in DecodeResults,
        sendRaises \in BOOLEAN :
       /\ sendRaises => oconn # "open"
       /\ \E speech \in {GenerateSpeech(remote)} :
          \E r \in {PostSynth(call.data, call.media, speech.v, ffmpegFound, decoded)} :
            /\ opc' = IF r.kind = "raise" THEN AfterRaise(r.exc).pc
                      ELSE IF r.kind = "send" /\ sendRaises THEN AfterRaise("ConnectionClosed").pc
                      ELSE "await_msg"
            /\ IF r.kind = "send" /\ ~sendRaises
                 THEN IF SendTarget(2) = 2
                        THEN osent' = WebsocketSend(osent, r.response) /\ UNCHANGED sent
                        ELSE sent' = WebsocketSend(sent, r.response) /\ UNCHANGED osent
                 ELSE UNCHANGED <<sent, osent>>
  /\ ocur' = NoFrame
  /\ UNCHANGED <<env, server, conn, inq, arrived, pc, cur, log, ttsCalls, transcodeCalls,
                 history, oconn, oinq, oarrived>>

OtherLoopEnd ==
  /\ opc = "await_msg"
  /\ ~Blocking(pc)
  /\ oinq = <<>>
  /\ oconn # "open"
  /\ opc' = "done"
  /\ UNCHANGED <<env, server, session, oconn, oinq, oarrived, ocur, osent>>

NextServer ==
  \/ MainStart
  \/ Accept
  \/ ArriveServer
  \/ PeerClose
  \/ HandlerStart
  \/ HandleMessage
  \/ SynthReturn
  \/ LoopEnd
  \/ OtherAccept
  \/ OtherArrive
  \/ OtherPeerClose
  \/ OtherStart
  \/ OtherHandle
  \/ OtherSynthReturn
  \/ OtherLoopEnd

SpecServer == Init /\ [][NextServer]_vars

\* ------------------------------------------------------------- properties
\* Vocabulary of the properties, read off the messages and the history.
IsObject(m) == m.valid /\ m.value.t = "dict"

EventIs(m, name) ==
  IsObject(m) /\ m.value.event.t = "str" /\ m.value.event.v = name

Handled == DOMAIN history

\* Iterations that sent a message.
Answered == {k \in Handled : history[k].out # 0}

\* The step ends the iteration of one message.
IterationEnds == Len(history') = Len(history) + 1

EndedMessage == history'[Len(history')].m

\* The response dict can be built from the media frame m: stream_sid and
\* sequence_number are present, sequence_number and chunk are integers and
\* the timestamp is an integer or the decimal text of one.
Buildable(m) ==
  /\ m.value.stream_sid.t # "absent"
  /\ m.value.sequence_number.t = "int"
  /\ m.value.media.chunk.t = "int"
  /\ PyInt(m.value.media.timestamp).ok

SynthesisSucceeded(h) == h.audio.t = "bytes" /\ Len(h.audio.v) > 0

SynthesisFailure(h) == h.audio.t = "none" \/ (h.audio.t = "bytes" /\ Len(h.audio.v) = 0)

TranscodeSucceeded(h) == h.pcm.t = "text" /\ Len(h.pcm.v) > 0

TranscodeFailure(h) == h.pcm.t = "none" \/ (h.pcm.t = "text" /\ Len(h.pcm.v) = 0)

\* The lifecycle state of the design, read off the call events the handler
\* has logged.
Lifecycle ==
  IF LogInfo("Call ended") \in Range(log) THEN "Terminated"
  ELSE IF LogInfo("Call started") \in Range(log) THEN "Active"
  ELSE "AwaitingStart"

\* C1: every outbound frame relates to the inbound media frame that triggered
\* it by sequence_number + 1, chunk + 1 and a timestamp that is the decimal
\* string of the inbound timestamp's integer value plus 20.
C1_Sequencing ==
  \A k \in Answered :
    LET inbound == history[k].m.value
        outbound == sent[history[k].out].value
    IN /\ outbound.sequence_number = JInt(inbound.sequence_number.v + 1)
       /\ outbound.media.chunk = JInt(inbound.media.chunk.v + 1)
       /\ outbound.media.timestamp.t = "text"
       /\ outbound.media.timestamp.v = IntToStr(PyInt(inbound.media.timestamp).v + 20)
       /\ ParseInt(outbound.media.timestamp.v) = Ok(PyInt(inbound.media.timestamp).v + 20)

\* Reached: a frame with timestamp " 0980", handled after an earlier frame,
\* answered with timestamp "1000".
C1_Witness ==
  \E k \in Answered :
    /\ k > 1
    /\ history[k].m.value.media.timestamp = JText(<<" ", "0", "9", "8", "0">>)
    /\ sent[history[k].out].value.media.timestamp = JText(<<"1", "0", "0", "0">>)

\* C2 as stated: the number of outbound frames sent equals the number of
\* inbound media frames whose synthesis and transcoding both succeeded.
C2_Original ==
  Len(sent) = Cardinality({k \in Handled :
                SynthesisSucceeded(history[k]) /\ TranscodeSucceeded(history[k])})

\* C2, amended: an inbound frame produces at most one outbound frame, no
\* outbound frame is sent twice, the frames sent are exactly those of the
\* iterations that reached the end of send, and on an open connection every
\* frame whose synthesis and transcoding succeeded and whose response can be
\* built produced one.
C2_ExactlyOne ==
  /\ Len(sent) = Cardinality(Answered)
  /\ \A k \in Answered : history[k].out \in DOMAIN sent
  /\ \A j, k \in Answered : history[j].out = history[k].out => j = k
  /\ \A k \in Answered :
       /\ SynthesisSucceeded(history[k])
       /\ TranscodeSucceeded(history[k])
       /\ Buildable(history[k].m)
  /\ conn = "open" =>
       \A k \in Handled :
         (SynthesisSucceeded(history[k]) /\ TranscodeSucceeded(history[k])
            /\ Buildable(history[k].m)) => k \in Answered

\* Reached: one frame answered, and one frame whose synthesis and transcoding
\* succeeded and that was not answered.
C2_Witness ==
  /\ Answered # {}
  /\ \E k \in Handled \ Answered :
       SynthesisSucceeded(history[k]) /\ TranscodeSucceeded(history[k])

\* C3: outbound frames are sent in the order in which their triggering
\* inbound frames arrived.
C3_ArrivalOrder ==
  \A j, k \in Answered :
    history[j].n < history[k].n => history[j].out < history[k].out

\* Reached: two answered frames.
C3_Witness == \E j, k \in Answered : history[j].n < history[k].n

\* C4: an error in one iteration never ends the loop: the handler leaves the
\* loop only when the connection is closed and every message that arrived
\* has been handled, and no exception leaves the handler once it has handled
\* a message.
C4_ErrorsContained ==
  /\ pc = "done" => conn # "open" /\ inq = <<>> /\ Len(history) = arrived
  /\ pc = "raised" => history = <<>>

\* Reached: the handler has returned after a frame that lacked stream_sid
\* (KeyError while the response is built) and a later frame that was answered.
C4_Witness ==
  /\ pc = "done"
  /\ \E j, k \in Handled :
       /\ j < k
       /\ SynthesisSucceeded(history[j])
       /\ TranscodeSucceeded(history[j])
       /\ history[j].m.value.stream_sid.t = "absent"
       /\ k \in Answered

\* C5: the iteration of a message that is not JSON, or is JSON but not an
\* object, sends nothing, calls no synthesis, leaves the handler in its loop
\* and leaves the lifecycle state as it was.
C5_MalformedIgnored ==
  [][(IterationEnds /\ ~IsObject(EndedMessage)) =>
       /\ sent' = sent
       /\ ttsCalls' = ttsCalls
       /\ pc = "await_msg" /\ pc' = "await_msg"
       /\ Lifecycle' = Lifecycle]_vars

\* Reached: invalid JSON handled in state Active.
C5_Witness ==
  /\ Lifecycle = "Active"
  /\ \E k \in Handled : k > 1 /\ ~history[k].m.valid

\* The message is a media event whose media object is missing or lacks one
\* of payload, chunk and timestamp.
LacksMediaField(m) ==
  /\ EventIs(m, "media")
  /\ \/ m.value.media.t = "absent"
     \/ /\ m.value.media.t = "dict"
        /\ \E f \in {"payload", "chunk", "timestamp"} : m.value.media[f].t = "absent"

\* C6: a media event that lacks payload, chunk or timestamp is never
\* answered, and no exception leaves the handler that handles it.
C6_MissingFieldIgnored ==
  /\ \A k \in Handled : LacksMediaField(history[k].m) => k \notin Answered
  /\ (\E k \in Handled : LacksMediaField(history[k].m)) => pc # "raised"

\* Reached: a media event with only chunk missing has been handled, after
\* which another frame was answered.
C6_Witness ==
  \E j \in Handled, k \in Answered :
    /\ j < k
    /\ LacksMediaField(history[j].m)
    /\ history[j].m.value.media.t = "dict"
    /\ history[j].m.value.media.payload.t # "absent"
    /\ history[j].m.value.media.timestamp.t # "absent"

\* C7: a frame whose synthesis call returned no audio (None or an empty
\* body) is not answered and the transcoder is not called for it: the
\* transcoder has been called once for each synthesis result with audio.
C7_SynthesisFailure ==
  /\ \A k \in Handled :
       SynthesisFailure(history[k]) =>
         k \notin Answered /\ history[k].pcm = NotCalled
  /\ transcodeCalls = Cardinality({k \in Handled : SynthesisSucceeded(history[k])})

\* Reached: one synthesis call returned None, another an empty body.
C7_Witness ==
  \E j, k \in Handled :
    /\ history[j].audio.t = "none"
    /\ history[k].audio.t = "bytes" /\ Len(history[k].audio.v) = 0

\* Number of records equal to r in the log.
LogCount(r) == Cardinality({i \in DOMAIN log : log[i] = r})

\* C8: a failed transcoding is a value, not an exception: the frame ends in
\* the handler's own "Failed to convert" branch and is not answered, and
\* every outbound frame carries a non-empty payload.
C8_TranscodeFailure ==
  /\ \A k \in Handled : TranscodeFailure(history[k]) => k \notin Answered
  /\ LogCount(LogError("Failed to convert audio to PCM"))
       = Cardinality({k \in Handled : TranscodeFailure(history[k])})
  /\ \A i \in DOMAIN sent :
       /\ sent[i].value.media.payload.t = "text"
       /\ Len(sent[i].value.media.payload.v) > 0

\* Reached: to_pcm_base64 has caught an exception and returned None for one
\* frame and has returned an empty string for another.
C8_Witness ==
  /\ LogError("Audio conversion failed") \in Range(log)
  /\ \E j, k \in Handled :
       /\ history[j].pcm.t = "none"
       /\ history[k].pcm.t = "text" /\ Len(history[k].pcm.v) = 0

\* C9 as stated: once a stop event has been handled, nothing more is sent
\* and no synthesis call is made.
C9_Original ==
  [][Lifecycle = "Terminated" => (sent' = sent /\ ttsCalls' = ttsCalls)]_vars

\* C9, amended: a stop event only logs the call end, sends nothing, calls no
\* synthesis and leaves the handler in its loop; a media frame handled after
\* it is answered like any other when its synthesis and transcoding succeed,
\* its response can be built and the connection is open.
C9_StopOnlyLogs ==
  [][/\ (IterationEnds /\ EventIs(EndedMessage, "stop")) =>
          /\ sent' = sent
          /\ ttsCalls' = ttsCalls
          /\ pc = "await_msg" /\ pc' = "await_msg"
          /\ log' = log \o <<EventReceived(JAtom("stop")), LogInfo("Call ended")>>
     /\ (/\ Lifecycle = "Terminated"
         /\ IterationEnds
         /\ conn = "open"
         /\ SynthesisSucceeded(history'[Len(history')])
         /\ TranscodeSucceeded(history'[Len(history')])
         /\ Buildable(EndedMessage)) =>
          Len(sent') = Len(sent) + 1]_vars

\* Reached: a media frame handled after a stop event has been answered.
C9_Witness ==
  \E j \in Handled, k \in Answered :
    j < k /\ EventIs(history[j].m, "stop")

\* C10 as stated: the stream_sid of a session is fixed by the first media
\* frame that carries one, so every outbound frame carries the stream_sid of
\* the first frame that was answered, whatever its own trigger carried.
C10_Original ==
  \A j, k \in Answered :
    (\A i \in Answered : j <= i) =>
      sent[history[k].out].value.stream_sid = history[j].m.value.stream_sid

\* C10, amended: every outbound frame carries the stream_sid of the inbound
\* media frame that triggered it.
C10_EchoesTrigger ==
  \A k \in Answered :
    sent[history[k].out].value.stream_sid = history[k].m.value.stream_sid

\* Reached: two outbound frames of one session with different stream_sid.
C10_Witness ==
  \E i, j \in DOMAIN sent : sent[i].value.stream_sid # sent[j].value.stream_sid

\* ---------------------------------------------------- startup and sessions
CredentialsMissing == ~env.api_key \/ ~env.voice_id

\* C11: while the API key or the voice identifier is missing the process does
\* not start serving: no connection is ever accepted and no inbound frame is
\* ever handled.
C11_NoServingWithoutCredentials ==
  CredentialsMissing =>
    /\ server = "starting"
    /\ conn = "none"
    /\ pc = "idle"
    /\ history = <<>>

\* C12: the wait for the synthesis response is a suspension point: while the
\* handler of one connection waits for it, the server can still accept a new
\* connection and the handler of another connection can still take the frame
\* that has arrived for it.
C12_SynthesisSuspends ==
  pc = "in_synth" =>
    /\ (server = "serving" /\ opc = "idle") => ENABLED OtherAccept
    /\ (opc = "accepted") => ENABLED OtherStart
    /\ (opc = "await_msg" /\ oinq # <<>>) => ENABLED OtherHandle

\* C13: connections are isolated.  A step of one connection's handler or peer
\* (its accept, its start whether TTSService() raises or not, a frame
\* arriving, an iteration, its end) leaves everything the other connection
\* has received, sent and recorded unchanged, and a frame is added to a
\* connection's outbound sequence only by the end of an iteration of its own
\* handler, as the response to the frame that iteration handled.
C13_Isolated ==
  [][/\ other' # other => UNCHANGED session
     /\ session' # session => UNCHANGED other
     /\ sent' # sent =>
          /\ IterationEnds
          /\ sent' = Append(sent, sent'[Len(sent')])
          /\ history'[Len(history')].out = Len(sent')
          /\ sent'[Len(sent')].value.stream_sid = EndedMessage.value.stream_sid
          /\ sent'[Len(sent')].value.sequence_number
               = JInt(EndedMessage.value.sequence_number.v + 1)]_vars

\* Reached: both connections have been answered, with different frames.
C13_Witness ==
  /\ sent # <<>>
  /\ osent # <<>>
  /\ sent[1] # osent[1]

\* Synthesis calls made and not yet returned.
InFlight ==
  Len(ttsCalls) - Cardinality({k \in Handled : history[k].audio # NotCalled})

\* C14: the pipelines of one session never overlap: at most one synthesis
\* call is in flight, one is in flight exactly while the handler is inside
\* generate_speech, and every frame that arrived before the one in flight
\* has ended its iteration while every later one is still waiting unread.
C14_NoOverlap ==
  /\ InFlight \in {0, 1}
  /\ InFlight = 1 <=> pc = "in_synth"
  /\ pc = "in_synth" =>
       /\ cur # NoFrame
       /\ \A k \in Handled : history[k].n < cur.n
       /\ \A i \in DOMAIN inq : inq[i].n > cur.n
       /\ Len(history) + 1 + Len(inq) = arrived
  /\ pc # "in_synth" => Len(history) + Len(inq) = arrived

\* Reached: the next frame has arrived while a synthesis call is in flight.
C14_Witness ==
  /\ pc = "in_synth"
  /\ inq # <<>>
  /\ Len(ttsCalls) = 1

\* An iteration whose synthesis and transcoding succeeded and whose response
\* could be built, and which sent nothing: its websocket.send raised.
FailedWrite(h) ==
  /\ SynthesisSucceeded(h)
  /\ TranscodeSucceeded(h)
  /\ Buildable(h.m)
  /\ h.out = 0

\* C15: a write that fails because the connection closed during the pipeline
\* happens only on a closed connection, is logged as an error by the
\* iteration it belongs to, which leaves the handler in its loop, and no
\* exception leaves the handler in that step or in any later one.
C15_WriteAfterClose ==
  [][/\ (IterationEnds /\ FailedWrite(history'[Len(history')])) =>
          /\ conn # "open"
          /\ log'[Len(log')] = LogError("Error processing message")
          /\ pc' = "await_msg"
          /\ sent' = sent
     /\ (\E k \in Handled : FailedWrite(history[k])) =>
          /\ pc' \in {"await_msg", "in_synth", "done"}
          /\ pc' = "done" => log'[Len(log')] = FinallyLog]_vars

\* Reached: the handler has returned after a write failed.
C15_Witness ==
  /\ pc = "done"
  /\ \E k \in Handled : FailedWrite(history[k])

ClosureError == LogError("WebSocket connection closed")

\* C16 as stated: however the peer closed the connection, the handler
\* returns and the closure is not logged as an error.
C16_Original ==
  conn # "open" /\ pc = "done" => ClosureError \notin Range(log)

\* C16, amended: once the handler is in its loop, a close by the peer ends
\* it without an exception leaving the handler, the termination record being
\* the last one; the end of the loop is logged as an error exactly when the
\* close was abnormal, as one "WebSocket connection closed" record.
C16_CloseLogging ==
  /\ pc = "raised" => CredentialsMissing /\ history = <<>>
  /\ pc = "done" =>
       /\ conn \in {"closed_ok", "closed_error"}
       /\ log[Len(log)] = FinallyLog
       /\ LogError("Unexpected error") \notin Range(log)
       /\ conn = "closed_ok" => ClosureError \notin Range(log)
       /\ conn = "closed_error" =>
            /\ log[Len(log) - 1] = ClosureError
            /\ LogCount(ClosureError) = 1
  /\ pc # "done" => ClosureError \notin Range(log)

\* Reached: the handler has returned after an abnormal close.
C16_Witness ==
  /\ pc = "done"
  /\ conn = "closed_error"
  /\ ClosureError \in Range(log)

\* m is a JSON object whose event is not "media".
NotMedia(m) == IsObject(m) /\ ~EventIs(m, "media")

\* C17: outbound frames answer media events only.  A frame whose event is
\* connected, start, stop or a name the handler does not know, and a frame
\* with no event, calls neither generate_speech nor to_pcm_base64 and sends
\* nothing; every synthesis call in flight is for a media event.
C17_OnlyMediaAnswered ==
  /\ \A k \in Handled :
       NotMedia(history[k].m) =>
         /\ history[k].out = 0
         /\ history[k].audio = NotCalled
         /\ history[k].pcm = NotCalled
  /\ pc = "in_synth" => EventIs(cur.m, "media")
  /\ Len(sent) <= Cardinality({k \in Handled : EventIs(history[k].m, "media")})

\* Reached: a frame with an unknown event name that carries the fields of a
\* media frame has been handled, and so has a frame with no event.
C17_Witness ==
  /\ \E k \in Handled : EventIs(history[k].m, "mark") /\ history[k].m.value.media.t = "dict"
  /\ \E k \in Handled : IsObject(history[k].m) /\ history[k].m.value.event.t = "absent"

\* ------------------------------------------------------ the media pipeline
\* m is a media event with a media object that has payload, chunk and
\* timestamp, and its payload is text that base64.b64decode accepts.
Validated(m) ==
  /\ EventIs(m, "media")
  /\ m.value.media.t = "dict"
  /\ \A f \in {"payload", "chunk", "timestamp"} : m.value.media[f].t # "absent"
  /\ B64Decode(m.value.media.payload).ok

\* The parameters entry of m is absent or a JSON object.
ParametersUsable(m) == m.value.parameters.t \in {"absent", "dict"}

\* The outbound frame for the media frame m and the transcoded payload pcm.
Expected(m, pcm) ==
  JsonDumps([t |-> "dict", event |-> JAtom("media"),
             stream_sid |-> m.value.stream_sid,
             sequence_number |-> JInt(m.value.sequence_number.v + 1),
             media |-> [t |-> "dict",
                        chunk |-> JInt(m.value.media.chunk.v + 1),
                        timestamp |-> JText(IntToStr(PyInt(m.value.media.timestamp).v + 20)),
                        payload |-> pcm]])

\* C18: the lifecycle state does not gate media processing.  Whatever call
\* events were handled before it, a validated media frame has its synthesis
\* call made, and when synthesis and transcoding succeed and the response can
\* be built, the frame sent for it is a function of the frame and of the
\* transcoded payload alone; it is left unsent only on a closed connection.
C18_NoLifecycleGate ==
  \A k \in Handled :
    LET h == history[k] IN
      (Validated(h.m) /\ ParametersUsable(h.m)) =>
        /\ h.audio # NotCalled
        /\ (SynthesisSucceeded(h) /\ TranscodeSucceeded(h) /\ Buildable(h.m)) =>
             /\ h.out = 0 => conn # "open"
             /\ h.out # 0 => sent[h.out] = Expected(h.m, h.pcm)

\* Reached: a media frame has been answered in a session that has handled no
\* start event.
C18_Witness ==
  /\ Lifecycle = "AwaitingStart"
  /\ \E k \in Answered : ~(\E j \in Handled : EventIs(history[j].m, "start"))

\* Number of messages taken from the queue that satisfy P: those whose
\* iteration has ended and the one whose synthesis call is in flight.
ProcessedCount(P(_)) ==
  Cardinality({k \in Handled : P(history[k].m)})
    + (IF pc = "in_synth" /\ P(cur.m) THEN 1 ELSE 0)

\* C19 as stated: the number of synthesis calls of a session is the number
\* of processed media frames that passed field validation and payload
\* decoding.
C19_Original == Len(ttsCalls) = ProcessedCount(Validated)

Synthesized(m) == Validated(m) /\ ParametersUsable(m)

\* C19, amended: the synthesis calls of a session are, one each, those of the
\* processed media frames that passed field validation and payload decoding
\* and whose parameters entry is absent or an object; a frame gets its call
\* whether or not an earlier call failed or carried the same text, and every
\* other frame gets none.
C19_OneCallPerFrame ==
  /\ Len(ttsCalls) = ProcessedCount(Synthesized)
  /\ \A k \in Handled : history[k].audio # NotCalled <=> Synthesized(history[k].m)
  /\ pc = "in_synth" => Synthesized(cur.m)

\* Reached: a second call with the text of a first one whose synthesis
\* failed.
C19_Witness ==
  /\ Len(ttsCalls) = 2
  /\ ttsCalls[1] = ttsCalls[2]
  /\ SynthesisFailure(history[1])

\* The text the claim gives the media frame m.
ClaimedText(m) ==
  IF m.value.parameters.t = "dict" /\ m.value.parameters.response_text.t # "absent"
    THEN m.value.parameters.response_text
    ELSE DefaultText

\* C20: the text of a synthesis call is the response_text of the frame's
\* parameters when the frame carries one, and the default text otherwise.
C20_ResponseText ==
  [][pc' = "in_synth" /\ pc # "in_synth" =>
       ttsCalls' = Append(ttsCalls, ClaimedText(cur'.m))]_vars

\* Reached: calls with the text of a frame and with the default text, the
\* latter for a frame whose parameters object has no response_text.
C20_Witness ==
  /\ ttsCalls = <<JAtom("test"), DefaultText>>
  /\ \E k \in Handled :
       /\ history[k].audio # NotCalled
       /\ history[k].m.value.parameters.t = "dict"
       /\ history[k].m.value.parameters.response_text.t = "absent"

====
